---- MODULE Spec2Model ----
(***************************************************************************)
(* Model of the Halite III gym environment (haliteenv.py): HaliteEnv.step  *)
(* and the handlers it calls, on the map built by Map.generateFractalMap.  *)
(*                                                                         *)
(* self.map is map[y][x][layer], layers 0..5 as in the class docstring:    *)
(*   0 halite on the floor, 1 halite on ship/structure, 2 structure        *)
(*   (1 factory, -1 dropoff), 3 ship, 4 owner, 5 inspiration.              *)
(* self.playerHalite is playerHalite[p], p = owner id - 1.                 *)
(*                                                                         *)
(* One call of step is a run of small steps, pc telling the position:      *)
(*   "idle" (between calls), "ships", "factories", "extract", and          *)
(*   "crashed" when the call raised an exception the driver does not catch.*)
(* The locals of step (ships, factories, nearShips, ship, act, success)    *)
(* are variables; Unset is a local that was not assigned yet. gen holds     *)
(* the arguments of a constructor call that has not run yet (SpecGen).     *)
(*                                                                         *)
(* Reading conventions of the translation:                                 *)
(*  - `for ship in np.where(...)` is read as the loop over the matching    *)
(*    cells in np.where's (row-major) order with ship[0] = y, ship[1] = x, *)
(*    as the comments of step say;                                         *)
(*  - numPlayers, playerHalite and true are read as self.numPlayers,       *)
(*    self.playerHalite and True;                                          *)
(*  - Python's negative indices wrap (PyIdx), slices clamp (SliceStart);   *)
(*  - rewards are counted in units of 0.0001.                              *)
(***************************************************************************)
EXTENDS Integers, Sequences, FiniteSets, TLC

\* ---------------------------------------------------------------- bounds
MapSize == 4
MaxTicks == 4
MaxOrders == 5

\* ------------------------------------------------------------- constants
numPlayers == 2
DROPOFF_COST == 4000
EXTRACT_RATIO == 4
INITIAL_ENERGY == 5000
INSPIRED_BONUS_MULTIPLIER == 2
INSPIRED_EXTRACT_RATIO == 4
INSPIRED_MOVE_COST_RATIO == 10
MAX_CELL_PRODUCTION == 1000
MAX_ENERGY == 1000
MOVE_COST_RATIO == 10
NEW_ENTITY_ENERGY_COST == 1000
RectHalfWidth == 6
RectHalfHeight == 5
PENALTY == 1000
BANK_REWARD == 5

\* A local of step that was not assigned yet; an assigned local is <<value>>
\* (ship is <<y, x>>).
Unset == << >>

\* ----------------------------------------------------------- map geometry
numTileCols == 2
numTileRows == 1
tileWidth == MapSize \div numTileCols
tileHeight == MapSize \div numTileRows
Width == tileWidth * numTileCols
Height == tileHeight * numTileRows
factoryX == tileWidth \div 2
factoryY == tileHeight \div 2

Rows == 0 .. (Height - 1)
Cols == 0 .. (Width - 1)
Layers == 0 .. 5
Players == 0 .. (numPlayers - 1)
Opcodes == 0 .. 6

Max(a, b) == IF a > b THEN a ELSE b
Min(a, b) == IF a < b THEN a ELSE b

\* Python index i into a container of length n: negative indices wrap.
PyIdx(i, n) == IF i < 0 THEN i + n ELSE i
PyIdxOk(i, n) == (i >= -n) /\ (i < n)

\* Python slice bound b on a length n: wrap once, then clamp.
SliceStart(b, n) == IF b < 0 THEN Max(b + n, 0) ELSE Min(b, n)

\* np.ceil(a / b) for a >= 0, b > 0; for a < 0 the quotient rounds to zero side.
CeilDiv(a, b) == IF a >= 0 THEN (a + b - 1) \div b ELSE -((-a) \div b)

\* np.where(self.map[:, :, layer] == val) as the sequence of <<y, x>>, row-major.
RECURSIVE WhereFrom(_, _, _, _)
WhereFrom(m, layer, val, n) ==
  IF n >= Width * Height THEN << >>
  ELSE LET y == n \div Width
           x == n % Width
       IN  (IF m[y][x][layer] = val THEN << <<y, x>> >> ELSE << >>)
             \o WhereFrom(m, layer, val, n + 1)

Where(m, layer, val) == WhereFrom(m, layer, val, 0)

\* ------------------------------------------------------------- map generator
\* The quadrant Map.generateFractalMap builds for two players: floor is the
\* rounded noise field (an input here), a factory of owner 1 at its centre.
Tile(floor) ==
  [y \in Rows |-> [x \in 0 .. (tileWidth - 1) |-> [l \in Layers |->
     IF y = factoryY /\ x = factoryX
       THEN (CASE l = 2 -> 1 [] l = 4 -> 1 [] OTHER -> 0)
       ELSE (IF l = 0 THEN floor[y][x] ELSE 0)]]]

\* np.fliplr + np.concatenate(axis=1), then layer 4 of quadrant i times i.
generateFractalMap(floor) ==
  LET tile == Tile(floor)
  IN  [y \in Rows |-> [x \in Cols |-> [l \in Layers |->
        LET tx == IF x < tileWidth THEN x ELSE (Width - 1) - x
            i == (x \div tileWidth) + 1
        IN  IF l = 4 THEN tile[y][tx][4] * i ELSE tile[y][tx][l]]]]

\* The noise fields tried: the rows below the factory hold the field's maximum,
\* every other cell is empty or at the maximum.
Floors ==
  { f \in [Rows -> [0 .. (tileWidth - 1) -> {0, MAX_CELL_PRODUCTION}]] :
      /\ \A y \in Rows : \A x \in 0 .. (tileWidth - 1) :
            (y > factoryY) => f[y][x] = MAX_CELL_PRODUCTION
      /\ \A y \in Rows : \A x1, x2 \in 0 .. (tileWidth - 1) : f[y][x1] = f[y][x2]
      /\ \A y1, y2 \in 0 .. factoryY - 1 : \A x \in 0 .. (tileWidth - 1) : f[y1][x] = f[y2][x] }

\* ------------------------------------------------------------------ handlers
\* A handler takes the world w = [map, playerHalite] and returns the world
\* after it together with its return value ret.
Ret(m, ph, r) == [map |-> m, playerHalite |-> ph, ret |-> r]

\* constructDropoff without line 250: the floor under the new dropoff stays.
constructDropoffKeepsFloor(w, shipX, shipY) ==
  LET m == w.map
      ph == w.playerHalite
      p == PyIdx(m[shipY][shipX][4] - 1, numPlayers)
  IN  IF ph[p] + m[shipY][shipX][0] - DROPOFF_COST < 0
        THEN Ret(m, ph, FALSE)
        ELSE Ret([m EXCEPT ![shipY][shipX][3] = 0,
                           ![shipY][shipX][2] = -1],
                 [ph EXCEPT ![p] = @ + m[shipY][shipX][0] - DROPOFF_COST],
                 TRUE)

constructDropoff(w, shipX, shipY) ==
  LET m == w.map
      ph == w.playerHalite
      p == PyIdx(m[shipY][shipX][4] - 1, numPlayers)
  IN  IF ph[p] + m[shipY][shipX][0] - DROPOFF_COST < 0
        THEN Ret(m, ph, FALSE)
        ELSE Ret([m EXCEPT ![shipY][shipX][3] = 0,
                           ![shipY][shipX][2] = -1,
                           ![shipY][shipX][0] = 0],
                 [ph EXCEPT ![p] = @ + m[shipY][shipX][0] - DROPOFF_COST],
                 TRUE)

\* collide with line 335 adding the mover's load only.
collideLosesCargo(m, shipX, shipY, newX, newY) ==
  [m EXCEPT ![shipY][shipX][4] = 0,
            ![shipY][shipX][3] = 0,
            ![newY][newX][4] = 0,
            ![newY][newX][3] = 0,
            ![newY][newX][0] = @ + m[shipY][shipX][1],
            ![newY][newX][1] = 0,
            ![shipY][shipX][1] = 0]

\* attemptMove, destination holds a ship of another owner (lines 331-338).
collide(m, shipX, shipY, newX, newY) ==
  [m EXCEPT ![shipY][shipX][4] = 0,
            ![shipY][shipX][3] = 0,
            ![newY][newX][4] = 0,
            ![newY][newX][3] = 0,
            ![newY][newX][0] = @ + m[shipY][shipX][1] + m[newY][newX][1],
            ![newY][newX][1] = 0,
            ![shipY][shipX][1] = 0]

\* attemptMove, destination holds a structure of the ship's owner (lines 342-350).
depositMap(m, shipX, shipY, newX, newY) ==
  [m EXCEPT ![newY][newX][1] = @ + m[shipY][shipX][1],
            ![shipY][shipX][1] = 0,
            ![shipY][shipX][4] = 0,
            ![shipY][shipX][3] = 0,
            ![newY][newX][3] = 1]

depositBank(m, ph, shipX, shipY) ==
  [ph EXCEPT ![PyIdx(m[shipY][shipX][4] - 1, numPlayers)] = @ + m[shipY][shipX][1]]

\* attemptMove, destination free (lines 356-362).
moveOn(m, shipX, shipY, newX, newY) ==
  [m EXCEPT ![newY][newX][4] = m[shipY][shipX][4],
            ![newY][newX][3] = 1,
            ![newY][newX][1] = m[shipY][shipX][1],
            ![shipY][shipX][4] = 0,
            ![shipY][shipX][3] = 0,
            ![shipY][shipX][1] = 0]

\* newYraw is the row index as passed; a negative one wraps as numpy's does.
attemptMove(w, shipX, shipY, newX, newYraw) ==
  LET m == w.map
      ph == w.playerHalite
      newY == PyIdx(newYraw, Height)
  IN  IF m[newY][newX][3] = 1
        THEN IF m[shipY][shipX][4] = m[newY][newX][4]
               THEN Ret(m, ph, FALSE)
               ELSE Ret(collide(m, shipX, shipY, newX, newY), ph, TRUE)
      ELSE IF m[newY][newX][2] = 1 \/ m[newY][newX][2] = -1
        THEN IF m[newY][newX][4] = m[shipY][shipX][4]
               THEN Ret(depositMap(m, shipX, shipY, newX, newY),
                        depositBank(m, ph, shipX, shipY), TRUE)
               ELSE Ret(m, ph, FALSE)
      ELSE Ret(moveOn(m, shipX, shipY, newX, newY), ph, TRUE)

\* self.map[shipY, shipX, 1] < self.map[shipY, shipX, 0] / cost, in integers.
CannotAfford(m, shipX, shipY) ==
  LET cost == IF m[shipY][shipX][5] = 1 THEN INSPIRED_MOVE_COST_RATIO
                                        ELSE MOVE_COST_RATIO
  IN  m[shipY][shipX][1] * cost < m[shipY][shipX][0]

\* The edge test moveShip makes for each direction.
atEdge(shipX, shipY, move) ==
  CASE move = "N" -> shipY = 0
    [] move = "E" -> shipX = Width - 1
    [] move = "S" -> shipY = Height - 1
    [] OTHER -> shipX = 0

\* The <<newX, newY>> moveShip passes to attemptMove for each direction.
moveTarget(shipX, shipY, move) ==
  CASE move = "N" -> <<shipX, shipY - 1>>
    [] move = "E" -> <<shipX + 1, shipY>>
    [] move = "S" -> <<shipX, shipY - 1>>
    [] OTHER -> <<shipX - 1, shipY>>

moveShip(w, shipX, shipY, move) ==
  IF CannotAfford(w.map, shipX, shipY) THEN Ret(w.map, w.playerHalite, FALSE)
  ELSE IF atEdge(shipX, shipY, move) THEN Ret(w.map, w.playerHalite, FALSE)
  ELSE attemptMove(w, shipX, shipY,
                   moveTarget(shipX, shipY, move)[1],
                   moveTarget(shipX, shipY, move)[2])

spawnShip(w, fX, fY) ==
  LET m == w.map
      ph == w.playerHalite
      p == PyIdx(m[fY][fX][4] - 1, numPlayers)
  IN  IF ph[p] - NEW_ENTITY_ENERGY_COST < 0 THEN Ret(m, ph, FALSE)
      ELSE IF m[fY][fX][3] = 1 THEN Ret(m, ph, FALSE)
      ELSE Ret([m EXCEPT ![fY][fX][3] = 1, ![fY][fX][1] = 0],
               [ph EXCEPT ![p] = @ - NEW_ENTITY_ENERGY_COST],
               TRUE)

\* isInspired(shipX, shipY): the result ("True", "False", or "IndexError" when
\* the owner lookup at [y, x, 4] leaves the array) and the map with layer 5 of
\* the scanned slice set.
isInspired(m, shipX, shipY) ==
  LET marginX1 == IF shipX - RectHalfWidth < 0 THEN 0 ELSE shipX - RectHalfWidth
      marginX2 == IF shipX + RectHalfWidth >= Width THEN Width - 1
                  ELSE shipX + RectHalfWidth
      marginY1 == shipY - RectHalfHeight
      marginY2 == IF shipY + RectHalfHeight >= Height THEN Height - 1
                  ELSE shipY + RectHalfHeight
      rs == SliceStart(marginY1, Height)
      re == SliceStart(marginY2, Height)
      cs == SliceStart(marginX1, Width)
      ce == SliceStart(marginX2, Width)
      InSlice(c) == c[1] >= rs /\ c[1] < re /\ c[2] >= cs /\ c[2] < ce
      nearShips == SelectSeq(Where(m, 3, 1), InSlice)
      Scan[k \in 1 .. (Len(nearShips) + 1)] ==
        IF k > Len(nearShips) THEN "False"
        ELSE LET x == (nearShips[k][2] - cs) + marginX1
                 y == (nearShips[k][1] - rs) + marginY1
             IN  IF ~PyIdxOk(y, Height) \/ ~PyIdxOk(x, Width) THEN "IndexError"
                 ELSE IF m[PyIdx(y, Height)][PyIdx(x, Width)][4] = m[shipY][shipX][4]
                   THEN "True"
                   ELSE Scan[k + 1]
      marked == [y \in Rows |-> [x \in Cols |-> [l \in Layers |->
                   IF l = 5 /\ InSlice(<<y, x>>) THEN 1 ELSE m[y][x][l]]]]
  IN  IF m[shipY][shipX][5] = 1 THEN [map |-> m, ret |-> "True"]
      ELSE IF Scan[1] = "IndexError" THEN [map |-> m, ret |-> "IndexError"]
      ELSE [map |-> marked, ret |-> Scan[1]]

\* The body of the extraction loop of step for the ship at <<y, x>>, after
\* isInspired returned inspired on map m.
extract(m, x, y, inspired) ==
  LET maxEnergy == MAX_ENERGY
      bonusMultiplier == INSPIRED_BONUS_MULTIPLIER
      ratio == IF inspired THEN INSPIRED_EXTRACT_RATIO ELSE EXTRACT_RATIO
      extracted0 == CeilDiv(m[y][x][0], ratio)
      zero == extracted0 = 0 /\ m[y][x][0] > 0
      extracted1 == IF zero THEN m[y][x][0] ELSE extracted0
      gained1 == IF zero THEN m[y][x][0] ELSE extracted0
      extracted == IF extracted1 + m[y][x][1] > maxEnergy
                     THEN maxEnergy - m[y][x][1] ELSE extracted1
      gained2 == IF inspired THEN gained1 + bonusMultiplier * gained1 ELSE gained1
      gained == IF maxEnergy - m[y][x][1] < gained2
                  THEN maxEnergy - m[y][x][1] ELSE gained2
  IN  [m EXCEPT ![y][x][1] = @ + gained, ![y][x][0] = @ - extracted]

\* ---------------------------------------------------------------------- state
VARIABLES map, playerHalite, playerReward, pc, tick,
          action, orders, ships, factories, nearShips, i, ship, act, success,
          gen

vars == <<map, playerHalite, playerReward, pc, tick,
          action, orders, ships, factories, nearShips, i, ship, act, success,
          gen>>

world == [map |-> map, playerHalite |-> playerHalite]

\* HaliteEnv.__init__: the generated map, every bank at 5000.
Init ==
  /\ \E floor \in Floors : map = generateFractalMap(floor)
  /\ playerHalite = [p \in Players |-> INITIAL_ENERGY]
  /\ playerReward = [p \in Players |-> 0]
  /\ pc = "idle"
  /\ tick = 0
  /\ action = << >>
  /\ orders = 0
  /\ ships = << >>
  /\ factories = << >>
  /\ nearShips = << >>
  /\ i = 0
  /\ ship = Unset
  /\ act = Unset
  /\ success = Unset
  /\ gen = Unset

\* action[p][y][x] of the grid passed to this call of step: the opcode is
\* chosen when the cell is first read and kept for a later read of the cell.
Reads(p, y, x) ==
  IF <<p, y, x>> \in DOMAIN action THEN {action[<<p, y, x>>]}
  ELSE IF orders < MaxOrders THEN Opcodes ELSE {0}

Ordered(p, y, x, a) ==
  IF <<p, y, x>> \notin DOMAIN action /\ a # 0 THEN orders + 1 ELSE orders

readsGrid == [k \in Players \X Rows \X Cols |-> Reads(k[1], k[2], k[3])]

Remember(p, y, x, a) ==
  IF <<p, y, x>> \in DOMAIN action THEN action ELSE action @@ (<<p, y, x>> :> a)

\* playerReward[self.map[ship[1], ship[0], 4] - 1] -= 0.1 on map m, for the
\* local ship = <<y, x>>: the cell looked up is row x, column y.
Penalize(m, s) ==
  [playerReward EXCEPT ![PyIdx(m[s[2]][s[1]][4] - 1, numPlayers)] = @ - PENALTY]

PenaltyIndexOk(s) == s[2] < Height /\ s[1] < Width

\* step is called, for at most n calls in a run: playerReward is zeroed and
\* the ships are listed.
StartStepUpTo(n) ==
  /\ pc = "idle"
  /\ tick < n
  /\ playerReward' = [p \in Players |-> 0]
  /\ ships' = Where(map, 3, 1)
  /\ i' = 1
  /\ pc' = "ships"
  /\ UNCHANGED <<gen, map, playerHalite, tick, action, orders, factories, nearShips,
                 ship, act, success>>

StartStep == StartStepUpTo(MaxTicks)

\* The unit action of opcode a on the cell <<y, x>>.
Direction(a) ==
  CASE a = 3 -> "N" [] a = 4 -> "E" [] a = 5 -> "S" [] OTHER -> "W"

\* unitAction with line 86 setting success to False.
unitActionIdleFails(w, a, x, y) ==
  IF a = 2 THEN constructDropoff(w, x, y)
  ELSE IF a \in 3 .. 6 THEN moveShip(w, x, y, Direction(a))
  ELSE Ret(w.map, w.playerHalite, FALSE)

unitAction(w, a, x, y) ==
  IF a = 2 THEN constructDropoff(w, x, y)
  ELSE IF a \in 3 .. 6 THEN moveShip(w, x, y, Direction(a))
  ELSE Ret(w.map, w.playerHalite, TRUE)

\* One iteration of the loop over ships, the grids giving one of the opcodes
\* Orders[<<p, y, x>>] on a cell.
ShipStepReading(Orders) ==
  /\ pc = "ships"
  /\ i <= Len(ships)
  /\ LET y == ships[i][1]
         x == ships[i][2]
         p == PyIdx(map[y][x][4] - 1, numPlayers)
     IN  \E a \in Orders[<<p, y, x>>] :
           LET r == unitAction(world, a, x, y)
           IN  /\ action' = Remember(p, y, x, a)
               /\ orders' = Ordered(p, y, x, a)
               /\ ship' = ships[i]
               /\ act' = <<a>>
               /\ success' = <<r.ret>>
               /\ map' = r.map
               /\ playerHalite' = r.playerHalite
               /\ IF r.ret THEN /\ playerReward' = playerReward
                                /\ pc' = pc
                  ELSE IF PenaltyIndexOk(ships[i])
                    THEN /\ playerReward' = Penalize(r.map, ships[i])
                         /\ pc' = pc
                    ELSE /\ playerReward' = playerReward
                         /\ pc' = "crashed"
  /\ i' = i + 1
  /\ UNCHANGED <<gen, tick, ships, factories, nearShips>>

ShipStep == ShipStepReading(readsGrid)

\* The loop over ships is over: the factories are listed.
EndShips ==
  /\ pc = "ships"
  /\ i > Len(ships)
  /\ factories' = Where(map, 2, 1)
  /\ i' = 1
  /\ pc' = "factories"
  /\ UNCHANGED <<gen, map, playerHalite, playerReward, tick, action, orders, ships,
                 nearShips, ship, act, success>>

\* One iteration of the loop over factories. success and ship are whatever
\* the loop over ships left; reading one that was never assigned raises.
FactoryStepReading(Orders) ==
  /\ pc = "factories"
  /\ i <= Len(factories)
  /\ LET y == factories[i][1]
         x == factories[i][2]
         p == PyIdx(map[y][x][4] - 1, numPlayers)
     IN  \E a \in Orders[<<p, y, x>>] :
           LET r == IF a = 1 THEN spawnShip(world, x, y)
                             ELSE Ret(map, playerHalite, TRUE)
               s == IF a = 1 THEN <<r.ret>> ELSE success
           IN  /\ action' = Remember(p, y, x, a)
               /\ orders' = Ordered(p, y, x, a)
               /\ act' = <<a>>
               /\ success' = s
               /\ map' = r.map
               /\ playerHalite' = r.playerHalite
               /\ IF s = Unset
                    THEN /\ playerReward' = playerReward
                         /\ pc' = "crashed"
                  ELSE IF s[1]
                    THEN /\ playerReward' = playerReward
                         /\ pc' = pc
                  ELSE IF ship = Unset \/ ~PenaltyIndexOk(ship)
                    THEN /\ playerReward' = playerReward
                         /\ pc' = "crashed"
                    ELSE /\ playerReward' = Penalize(r.map, ship)
                         /\ pc' = pc
  /\ i' = i + 1
  /\ UNCHANGED <<gen, tick, ships, factories, nearShips, ship>>

FactoryStep == FactoryStepReading(readsGrid)

\* The loop over factories is over: layer 5 is reset, the ships listed again.
EndFactories ==
  /\ pc = "factories"
  /\ i > Len(factories)
  /\ map' = [y \in Rows |-> [x \in Cols |-> [map[y][x] EXCEPT ![5] = 0]]]
  /\ nearShips' = Where(map, 3, 1)
  /\ i' = 1
  /\ pc' = "extract"
  /\ UNCHANGED <<gen, playerHalite, playerReward, tick, action, orders, ships, factories,
                 ship, act, success>>

\* One iteration of the inspiration/extraction loop.
ExtractStep ==
  /\ pc = "extract"
  /\ i <= Len(nearShips)
  /\ LET y == nearShips[i][1]
         x == nearShips[i][2]
         r == isInspired(map, x, y)
     IN  IF r.ret = "IndexError"
           THEN /\ map' = map
                /\ pc' = "crashed"
           ELSE /\ map' = extract(r.map, x, y, r.ret = "True")
                /\ pc' = pc
  /\ ship' = nearShips[i]
  /\ i' = i + 1
  /\ UNCHANGED <<gen, playerHalite, playerReward, tick, action, orders, ships, factories,
                 nearShips, act, success>>

\* The bank bonus is added and step returns; its locals are gone.
Return ==
  /\ pc = "extract"
  /\ i > Len(nearShips)
  /\ playerReward' = [p \in Players |->
                        playerReward[p] + playerHalite[p] * BANK_REWARD]
  /\ pc' = "idle"
  /\ tick' = tick + 1
  /\ action' = << >>
  /\ ships' = << >>
  /\ factories' = << >>
  /\ nearShips' = << >>
  /\ i' = 0
  /\ ship' = Unset
  /\ act' = Unset
  /\ success' = Unset
  /\ UNCHANGED <<gen, map, playerHalite, orders>>

Next ==
  \/ StartStep
  \/ ShipStep
  \/ EndShips
  \/ FactoryStep
  \/ EndFactories
  \/ ExtractStep
  \/ Return

Spec == Init /\ [][Next]_vars

\* ------------------------------------------------- a longer run on one map
\* The same environment driven for more calls of step by grids that hold, on
\* each cell, Idle or the order HarvestPlan has for that call, player and
\* cell. The plan: both players spawn and send their unit north; each factory
\* then spawns again; those two units fetch halite from the cells west and
\* east of the factories and bring it back, and one of them is converted.
MaxHarvestTicks == 7

\* The noise field of this run: nothing above, HarvestFloor one row north of
\* the factory, the field's maximum on the factory's row and below.
HarvestFloor == 400
harvestField ==
  [y \in Rows |-> [x \in 0 .. (tileWidth - 1) |->
     IF y >= factoryY THEN MAX_CELL_PRODUCTION
     ELSE IF y = factoryY - 1 THEN HarvestFloor
     ELSE 0]]

factory2X == (Width - 1) - factoryX

\* <<call, player index, y, x, opcode>>
HarvestPlan ==
  { <<0, 0, factoryY, factoryX, 1>>, <<0, 1, factoryY, factory2X, 1>>,
    <<1, 0, factoryY, factoryX, 3>>, <<1, 1, factoryY, factory2X, 3>>,
    <<1, 1, factoryY, factoryX, 1>>,
    <<2, 1, factoryY, factoryX, 6>>, <<2, 1, factoryY, factory2X, 1>>,
    <<3, 1, factoryY, factoryX - 1, 4>>, <<3, 1, factoryY, factory2X, 4>>,
    <<4, 1, factoryY, factoryX, 6>>, <<4, 1, factoryY, factory2X + 1, 6>>,
    <<5, 1, factoryY, factoryX - 1, 4>>,
    <<6, 1, factoryY, factoryX, 2>>, <<6, 1, factoryY, factory2X, 6>> }

ReadsPlanned(p, y, x) ==
  IF <<p, y, x>> \in DOMAIN action THEN {action[<<p, y, x>>]}
  ELSE {0} \cup {a \in Opcodes : <<tick, p, y, x, a>> \in HarvestPlan}

plannedGrid == [k \in Players \X Rows \X Cols |-> ReadsPlanned(k[1], k[2], k[3])]

InitHarvest ==
  /\ map = generateFractalMap(harvestField)
  /\ playerHalite = [p \in Players |-> INITIAL_ENERGY]
  /\ playerReward = [p \in Players |-> 0]
  /\ pc = "idle"
  /\ tick = 0
  /\ action = << >>
  /\ orders = 0
  /\ ships = << >>
  /\ factories = << >>
  /\ nearShips = << >>
  /\ i = 0
  /\ ship = Unset
  /\ act = Unset
  /\ success = Unset
  /\ gen = Unset

StartStepHarvest == StartStepUpTo(MaxHarvestTicks)
ShipStepHarvest == ShipStepReading(plannedGrid)
FactoryStepHarvest == FactoryStepReading(plannedGrid)

NextHarvest ==
  \/ StartStepHarvest
  \/ ShipStepHarvest
  \/ EndShips
  \/ FactoryStepHarvest
  \/ EndFactories
  \/ ExtractStep
  \/ Return

SpecHarvest == InitHarvest /\ [][NextHarvest]_vars

\* ------------------------------------------------- the constructor's inputs
\* HaliteEnv.__init__(numPlayers, mapType, mapSize) and the call of
\* Map.generateFractalMap(mapSize.value, numPlayers) it makes, for any player
\* count. The random noise is an input: the largest cell of the field holds
\* maxCellProduction, the others a pattern scaled by noise.
MaxPlayers == 8
GenSizes == {4, 8, 32}
MIN_CELL_PRODUCTION == 900
NoiseLevels == {0, 400, 900}

\* The loop of lines 455-464: <<numTileRows, numTileCols>>.
RECURSIVE tiling(_, _, _, _)
tiling(numTiles, rows, cols, n) ==
  IF numTiles >= n THEN <<rows, cols>>
  ELSE IF numTiles * 2 = n THEN <<rows, cols * 2>>
  ELSE tiling(numTiles * 4, rows * 2, cols * 2, n)

\* np.round(region) for a tile of h rows and w columns.
noiseField(h, w, maxCellProduction, noise) ==
  [y \in 0 .. (h - 1) |-> [x \in 0 .. (w - 1) |->
     IF y = 0 /\ x = 0 THEN maxCellProduction
     ELSE (noise * ((x + 2 * y) % 3)) \div 2]]

\* A generator result: the array m of h rows and w columns, or the exception
\* err that ended the call.
Generated(m, h, w) == [err |-> "", m |-> m, h |-> h, w |-> w]
Raised(e) == [err |-> e, m |-> << >>, h |-> 0, w |-> 0]

\* Lines 478-501: the first tile with its factory.
firstTile(h, w, field) ==
  Generated([y \in 0 .. (h - 1) |-> [x \in 0 .. (w - 1) |-> [l \in Layers |->
               IF y = h \div 2 /\ x = w \div 2
                 THEN (CASE l = 2 -> 1 [] l = 4 -> 1 [] OTHER -> 0)
                 ELSE (IF l = 0 THEN field[y][x] ELSE 0)]]],
            h, w)

\* Lines 507-508: np.concatenate((tile, np.fliplr(tile)), axis=1).
fliplrConcat(t) ==
  Generated([y \in 0 .. (t.h - 1) |-> [x \in 0 .. (2 * t.w - 1) |->
               IF x < t.w THEN t.m[y][x] ELSE t.m[y][(2 * t.w - 1) - x]]],
            t.h, 2 * t.w)

\* np.concatenate((tile, np.flipud(tile)), axis=0), what line 514 is not.
flipudConcatAxis0(t) ==
  Generated([y \in 0 .. (2 * t.h - 1) |-> [x \in 0 .. (t.w - 1) |->
               IF y < t.h THEN t.m[y][x] ELSE t.m[(2 * t.h - 1) - y][x]]],
            2 * t.h, t.w)

\* Lines 513-514: np.concatenate(tile, flip) passes flip as the axis.
flipudConcat(t) == Raised("TypeError")

\* The loop of lines 505-517.
RECURSIVE flips(_, _, _)
flips(t, numTiles, n) ==
  IF numTiles >= n THEN t
  ELSE LET t1 == fliplrConcat(t)
       IN  IF numTiles * 2 = n THEN t1
           ELSE LET t2 == flipudConcat(t1)
                IN  IF t2.err # "" THEN t2 ELSE flips(t2, numTiles * 4, n)

\* Lines 518-522: layer 4 of the block in column i, row j times playerNum.
assignOwners(t, tw, th) ==
  Generated([y \in 0 .. (t.h - 1) |-> [x \in 0 .. (t.w - 1) |->
               [t.m[y][x] EXCEPT ![4] =
                  @ * ((x \div tw) * (t.h \div th) + (y \div th) + 1)]]],
            t.h, t.w)

\* Map.generateFractalMap(mapSize, numPlayers). A tile narrower or lower than
\* 2 leaves smoothedSource unbound at line 474; a tile of 16..40 by 16..40
\* makes factoryX a float, which line 499 uses as an index.
fractalMap(mapSize, n, maxCellProduction, noise) ==
  LET rc == tiling(1, 1, 1, n)
      tw == mapSize \div rc[2]
      th == mapSize \div rc[1]
  IN  IF Min(tw, th) < 2 THEN Raised("UnboundLocalError")
      ELSE IF tw >= 16 /\ tw <= 40 /\ th >= 16 /\ th <= 40 THEN Raised("IndexError")
      ELSE LET t == flips(firstTile(th, tw, noiseField(th, tw, maxCellProduction, noise)),
                          1, n)
           IN  IF t.err # "" THEN t ELSE assignOwners(t, tw, th)

InitGen ==
  /\ gen \in [numPlayers : 1 .. MaxPlayers, mapSize : GenSizes,
              maxCellProduction : {MIN_CELL_PRODUCTION, MAX_CELL_PRODUCTION},
              noise : NoiseLevels]
  /\ map = Unset
  /\ playerHalite = Unset
  /\ playerReward = Unset
  /\ pc = "new"
  /\ tick = 0
  /\ action = << >>
  /\ orders = 0
  /\ ships = << >>
  /\ factories = << >>
  /\ nearShips = << >>
  /\ i = 0
  /\ ship = Unset
  /\ act = Unset
  /\ success = Unset

\* HaliteEnv.__init__: the map is generated, then every bank is filled.
Construct ==
  /\ pc = "new"
  /\ LET r == fractalMap(gen.mapSize, gen.numPlayers, gen.maxCellProduction, gen.noise)
     IN  IF r.err # ""
           THEN /\ pc' = "crashed"
                /\ UNCHANGED <<map, playerHalite>>
           ELSE /\ pc' = "idle"
                /\ map' = r.m
                /\ playerHalite' = [p \in 0 .. (gen.numPlayers - 1) |-> INITIAL_ENERGY]
  /\ UNCHANGED <<gen, playerReward, tick, action, orders, ships, factories,
                 nearShips, i, ship, act, success>>

NextGen == Construct

SpecGen == InitGen /\ [][NextGen]_vars

\* ------------------------------------------------------------ reading helpers
floorResource(m, y, x) == m[y][x][0]
carriedResource(m, y, x) == m[y][x][1]
structure(m, y, x) == m[y][x][2]
hasUnit(m, y, x) == m[y][x][3] = 1
owner(m, y, x) == m[y][x][4]

RECURSIVE GridSum(_, _)
GridSum(m, n) ==
  IF n >= Width * Height THEN 0
  ELSE m[n \div Width][n % Width][0] + m[n \div Width][n % Width][1]
         + GridSum(m, n + 1)

RECURSIVE BankSum(_, _)
BankSum(ph, p) == IF p >= numPlayers THEN 0 ELSE ph[p] + BankSum(ph, p + 1)

\* Floor and carried resource of every cell plus every bank.
Total == GridSum(map, 0) + BankSum(playerHalite, 0)

\* The steps of one call of step, as action predicates.
UnitStep == pc = "ships" /\ i <= Len(ships) /\ i' = i + 1
StructureStep == pc = "factories" /\ i <= Len(factories) /\ i' = i + 1
ExtractionStep == pc = "extract" /\ i <= Len(nearShips) /\ i' = i + 1

\* ----------------------------------------------------------------- claims
\* C1: at every tick boundary, a cell without a unit has carriedResource 0.
C1_NoCargoWithoutUnit ==
  pc = "idle" =>
    \A y \in Rows : \A x \in Cols :
      ~hasUnit(map, y, x) => carriedResource(map, y, x) = 0

\* C2: at every tick boundary, a cell's owner is 0 exactly when the cell has
\* neither a unit nor a structure.
C2_OwnerIffOccupied ==
  pc = "idle" =>
    \A y \in Rows : \A x \in Cols :
      (owner(map, y, x) = 0) <=>
        (~hasUnit(map, y, x) /\ structure(map, y, x) = 0)

\* C3: the total of floor, carried and banked resource changes only by the
\* cost of a successful conversion or spawn (it goes down by exactly that
\* cost) and by the bonus of an extraction (it never goes down there); a move,
\* a deposit and a collision leave it unchanged.
C3_Conservation ==
  [][ /\ UnitStep =>
           Total' = Total - (IF act' = <<2>> /\ success' = <<TRUE>>
                               THEN DROPOFF_COST ELSE 0)
      /\ StructureStep =>
           Total' = Total - (IF act' = <<1>> /\ success' = <<TRUE>>
                               THEN NEW_ENTITY_ENERGY_COST ELSE 0)
      /\ ExtractionStep => Total' >= Total
      /\ ~(UnitStep \/ StructureStep \/ ExtractionStep) => Total' = Total
    ]_vars

\* The cell the current iteration of the loop over ships works on, the opcode
\* it read (after the step) and what the claims call a valid move from there.
cy == ships[i][1]
cx == ships[i][2]
IsMove(a) == a \in 3 .. 6
ValidMove(a) ==
  /\ IsMove(a)
  /\ ~CannotAfford(map, cx, cy)
  /\ ~atEdge(cx, cy, Direction(a))
\* Row and column of the cell a valid move of opcode a goes into.
destY(a) == PyIdx(moveTarget(cx, cy, Direction(a))[2], Height)
destX(a) == moveTarget(cx, cy, Direction(a))[1]
\* A unit of a player stands on the current cell.
UnitOfPlayer == hasUnit(map, cy, cx) /\ owner(map, cy, cx) \in 1 .. numPlayers
SameExceptCells(m1, m2, cells) ==
  \A y \in Rows : \A x \in Cols : (<<y, x>> \notin cells) => m1[y][x] = m2[y][x]

\* The player a cell's factory was generated for (layer 4 of the initial map).
homeOwner(y, x) == generateFractalMap(CHOOSE f \in Floors : TRUE)[y][x][4]

\* C4: a valid move of a unit carrying c onto a unit-free cell with a Factory
\* or Dropoff of the unit's owner adds exactly c to the owner's bank, clears
\* the origin (no unit, carried 0, owner 0), and leaves the structure cell
\* without a unit and with carried 0, its structure and owner kept. The
\* structure is the mover's when layer 4 says so or when it is the factory
\* generated for that player.
C4_DepositRemovesUnit ==
  [][ \A a \in 3 .. 6 :
        ( /\ UnitStep /\ UnitOfPlayer /\ act' = <<a>> /\ ValidMove(a)
          /\ ~hasUnit(map, destY(a), destX(a))
          /\ structure(map, destY(a), destX(a)) # 0
          /\ \/ owner(map, destY(a), destX(a)) = owner(map, cy, cx)
             \/ /\ structure(map, destY(a), destX(a)) = 1
                /\ homeOwner(destY(a), destX(a)) = owner(map, cy, cx) )
        => /\ playerHalite' = [playerHalite EXCEPT ![owner(map, cy, cx) - 1] =
                                  @ + carriedResource(map, cy, cx)]
           /\ ~hasUnit(map', cy, cx)
           /\ carriedResource(map', cy, cx) = 0
           /\ owner(map', cy, cx) = 0
           /\ ~hasUnit(map', destY(a), destX(a))
           /\ carriedResource(map', destY(a), destX(a)) = 0
           /\ structure(map', destY(a), destX(a)) = structure(map, destY(a), destX(a))
           /\ owner(map', destY(a), destX(a)) = owner(map, cy, cx)
    ]_vars

\* C5: two adjacent units of different owners that each move into the other's
\* cell are both destroyed and no new unit appears. The unit of player 1 on
\* the first listed cell moved east (opcode 4) into the unit on the second
\* listed cell and both are gone; the step on the second cell, which reads the
\* opcode 6 issued for the second unit, changes nothing on the map.
C5_CollisionSymmetry ==
  [][ ( /\ UnitStep /\ i = 2
        /\ ships[1] = <<cy, cx - 1>>
        /\ <<0, cy, cx - 1>> \in DOMAIN action
        /\ action[<<0, cy, cx - 1>>] = 4
        /\ ~hasUnit(map, cy, cx - 1)
        /\ ~hasUnit(map, cy, cx)
        /\ act' = <<6>> )
      => map' = map
    ]_vars

\* C6: a valid move of a unit into a cell with a unit of a different owner
\* removes both units, adds both carried amounts to the destination's floor,
\* leaves carried 0 on both cells, and leaves the origin's floor and every
\* bank unchanged.
C6_Collision ==
  [][ \A a \in 3 .. 6 :
        ( /\ UnitStep /\ UnitOfPlayer /\ act' = <<a>> /\ ValidMove(a)
          /\ hasUnit(map, destY(a), destX(a))
          /\ owner(map, destY(a), destX(a)) # owner(map, cy, cx) )
        => /\ ~hasUnit(map', cy, cx)
           /\ ~hasUnit(map', destY(a), destX(a))
           /\ floorResource(map', destY(a), destX(a)) =
                floorResource(map, destY(a), destX(a))
                  + carriedResource(map, cy, cx)
                  + carriedResource(map, destY(a), destX(a))
           /\ carriedResource(map', cy, cx) = 0
           /\ carriedResource(map', destY(a), destX(a)) = 0
           /\ floorResource(map', cy, cx) = floorResource(map, cy, cx)
           /\ playerHalite' = playerHalite
    ]_vars

\* The cell the last iteration of the loop over ships worked on, and the cell
\* its move went into.
lastY == ship[1]
lastX == ship[2]
lastDestY == PyIdx(moveTarget(lastX, lastY, Direction(act[1]))[2], Height)
lastDestX == moveTarget(lastX, lastY, Direction(act[1]))[1]
JustMoved == pc = "ships" /\ act # Unset /\ IsMove(act[1]) /\ success = <<TRUE>>

\* A move has just ended in a collision that put more than one unit's full
\* load on the destination's floor: both cells are empty of units.
C6_Witness ==
  /\ JustMoved
  /\ <<0, lastY, lastX>> \in DOMAIN action
  /\ ~hasUnit(map, lastY, lastX)
  /\ ~hasUnit(map, lastDestY, lastDestX)
  /\ carriedResource(map, lastDestY, lastDestX) = 0
  /\ floorResource(map, lastDestY, lastDestX) > MAX_CELL_PRODUCTION

\* The destination the game rules give a move: N y-1, E x+1, S y+1, W x-1.
ruleTarget(x, y, a) ==
  CASE a = 3 -> <<x, y - 1>>
    [] a = 4 -> <<x + 1, y>>
    [] a = 5 -> <<x, y + 1>>
    [] OTHER -> <<x - 1, y>>

InGrid(t) == t[1] \in Cols /\ t[2] \in Rows

\* C7: a move off the grid changes nothing, and a unit only ever appears on
\* the in-grid cell next to its origin in the commanded direction.
C7_EdgesAreWalls ==
  [][ \A a \in 3 .. 6 :
        (UnitStep /\ UnitOfPlayer /\ act' = <<a>>)
        => /\ ~InGrid(ruleTarget(cx, cy, a)) =>
                (map' = map /\ playerHalite' = playerHalite)
           /\ \A y \in Rows : \A x \in Cols :
                (hasUnit(map', y, x) /\ ~hasUnit(map, y, x))
                  => <<x, y>> = ruleTarget(cx, cy, a)
    ]_vars

\* C8: a valid move into a unit of the same owner, or onto a unit-free cell
\* with a structure of a different owner, leaves map and banks as they were
\* and costs the mover's owner, and nobody else, one penalty.
C8_FailedMove ==
  [][ \A a \in 3 .. 6 :
        ( /\ UnitStep /\ UnitOfPlayer /\ act' = <<a>> /\ ValidMove(a)
          /\ \/ /\ hasUnit(map, destY(a), destX(a))
                /\ owner(map, destY(a), destX(a)) = owner(map, cy, cx)
             \/ /\ ~hasUnit(map, destY(a), destX(a))
                /\ structure(map, destY(a), destX(a)) # 0
                /\ owner(map, destY(a), destX(a)) \in 1 .. numPlayers
                /\ owner(map, destY(a), destX(a)) # owner(map, cy, cx) )
        => /\ map' = map
           /\ playerHalite' = playerHalite
           /\ playerReward' = [playerReward EXCEPT ![owner(map, cy, cx) - 1] =
                                  @ - PENALTY]
    ]_vars

\* C9: ConvertToDropoff with bank + floor below DROPOFF_COST leaves the unit,
\* the bank, the floor and the structure as they were and costs the unit's
\* owner one penalty.
C9_ConvertFails ==
  [][ ( /\ UnitStep /\ UnitOfPlayer /\ act' = <<2>>
        /\ playerHalite[owner(map, cy, cx) - 1] + floorResource(map, cy, cx)
             < DROPOFF_COST )
      => /\ map' = map
         /\ playerHalite' = playerHalite
         /\ playerReward' = [playerReward EXCEPT ![owner(map, cy, cx) - 1] =
                                @ - PENALTY]
    ]_vars

\* C10: ConvertToDropoff with bank + floor at least DROPOFF_COST succeeds: the
\* owner's bank becomes bank + floor - DROPOFF_COST (not negative), the cell
\* has no unit, a Dropoff of the same owner and floor 0; the other banks and
\* all other cells are unchanged.
C10_ConvertSucceeds ==
  [][ ( /\ UnitStep /\ UnitOfPlayer /\ act' = <<2>>
        /\ playerHalite[owner(map, cy, cx) - 1] + floorResource(map, cy, cx)
             >= DROPOFF_COST )
      => /\ success' = <<TRUE>>
         /\ playerHalite' = [playerHalite EXCEPT ![owner(map, cy, cx) - 1] =
                               @ + floorResource(map, cy, cx) - DROPOFF_COST]
         /\ playerHalite'[owner(map, cy, cx) - 1] >= 0
         /\ ~hasUnit(map', cy, cx)
         /\ structure(map', cy, cx) = -1
         /\ owner(map', cy, cx) = owner(map, cy, cx)
         /\ floorResource(map', cy, cx) = 0
         /\ SameExceptCells(map', map, {<<cy, cx>>})
         /\ playerReward' = playerReward
    ]_vars

\* A unit standing on floor resource has just been converted: a Dropoff of a
\* player without a unit, and the bank holds what the floor added.
C10_Witness ==
  /\ pc = "ships"
  /\ act = <<2>>
  /\ success = <<TRUE>>
  /\ ~hasUnit(map, lastY, lastX)
  /\ structure(map, lastY, lastX) = -1
  /\ owner(map, lastY, lastX) \in 1 .. numPlayers
  /\ floorResource(map, lastY, lastX) = 0
  /\ playerHalite[owner(map, lastY, lastX) - 1] > 0

\* The cell the current iteration of the loop over factories works on.
fy == factories[i][1]
fx == factories[i][2]

\* The player a structure belongs to: the one layer 4 names, and for a Factory
\* whose layer 4 was zeroed the one it was generated for (0: nobody's).
structureOwner(m, y, x) ==
  IF structure(m, y, x) = 0 THEN 0
  ELSE IF owner(m, y, x) \in 1 .. numPlayers THEN owner(m, y, x)
  ELSE IF structure(m, y, x) = 1 THEN homeOwner(y, x)
  ELSE 0

\* The grid of player index p as far as this call of step has read it allows
\* opcode a on the cell: the cell was not read yet, or was read as a.
MayBeOrdered(act_, p, y, x, a) ==
  (<<p, y, x>> \in DOMAIN act_) => act_[<<p, y, x>>] = a

\* C11: SpawnUnit issued by the owner on that player's Factory or Dropoff
\* succeeds exactly when the owner's bank holds NEW_ENTITY_ENERGY_COST and the
\* cell has no unit; on success the bank goes down by that cost and the cell
\* gets a unit of the owner carrying 0; on failure map and banks are
\* unchanged, and no bank is negative afterwards. First conjunct: a step of
\* the structure loop that spawns on a player's structure while that player's
\* grid may hold SpawnUnit there. Second conjunct: when the loop is over, no
\* structure of a player that can spawn (no unit, bank sufficient) is left
\* with an order of its owner that may be SpawnUnit.
C11_Spawn ==
  [][ /\ ( /\ StructureStep /\ act' = <<1>>
           /\ structureOwner(map, fy, fx) \in 1 .. numPlayers
           /\ MayBeOrdered(action', structureOwner(map, fy, fx) - 1, fy, fx, 1) )
         => LET p == structureOwner(map, fy, fx) - 1
                ok == playerHalite[p] >= NEW_ENTITY_ENERGY_COST
                        /\ ~hasUnit(map, fy, fx)
            IN  /\ success' = <<ok>>
                /\ ok => /\ playerHalite' = [playerHalite EXCEPT ![p] =
                                               @ - NEW_ENTITY_ENERGY_COST]
                         /\ hasUnit(map', fy, fx)
                         /\ owner(map', fy, fx) = p + 1
                         /\ carriedResource(map', fy, fx) = 0
                         /\ SameExceptCells(map', map, {<<fy, fx>>})
                /\ ~ok => (map' = map /\ playerHalite' = playerHalite)
                /\ \A q \in Players : playerHalite'[q] >= 0
      /\ (pc = "factories" /\ pc' = "extract")
         => \A y \in Rows : \A x \in Cols :
              ( /\ structureOwner(map, y, x) \in 1 .. numPlayers
                /\ ~hasUnit(map, y, x)
                /\ playerHalite[structureOwner(map, y, x) - 1]
                     >= NEW_ENTITY_ENERGY_COST )
              => ~MayBeOrdered(action, structureOwner(map, y, x) - 1, y, x, 1)
    ]_vars

\* The cell the current iteration of the extraction loop works on.
ey == nearShips[i][1]
ex == nearShips[i][2]

Abs(n) == IF n < 0 THEN -n ELSE n

\* The rectangle of half-width RectHalfWidth and half-height RectHalfHeight
\* around <<y, x>> holds a unit, other than the one at <<y, x>>, of another
\* owner.
EnemyNear(m, y, x) ==
  \E y2 \in Rows : \E x2 \in Cols :
    /\ <<y2, x2>> # <<y, x>>
    /\ Abs(y2 - y) <= RectHalfHeight
    /\ Abs(x2 - x) <= RectHalfWidth
    /\ hasUnit(m, y2, x2)
    /\ owner(m, y2, x2) # owner(m, y, x)

\* The unit of a player on the current cell of the extraction loop was told
\* to idle in this call of step.
IdleUnit ==
  /\ hasUnit(map, ey, ex)
  /\ owner(map, ey, ex) \in 1 .. numPlayers
  /\ <<owner(map, ey, ex) - 1, ey, ex>> \in DOMAIN action
  /\ action[<<owner(map, ey, ex) - 1, ey, ex>>] = 0

\* C12: a unit that idles on floor f with carried c and has no unit of a
\* different owner in its neighbourhood extracts
\* min(ceil(f / EXTRACT_RATIO), MAX_ENERGY - c): carried becomes c + extracted
\* and the floor f - extracted.
C12_UninspiredExtraction ==
  [][ ( /\ ExtractionStep /\ pc' = "extract"
        /\ IdleUnit
        /\ ~EnemyNear(map, ey, ex) )
      => LET f == floorResource(map, ey, ex)
             c == carriedResource(map, ey, ex)
             extracted == Min(CeilDiv(f, EXTRACT_RATIO), MAX_ENERGY - c)
         IN  /\ carriedResource(map', ey, ex) = c + extracted
             /\ floorResource(map', ey, ex) = f - extracted
    ]_vars

\* C13: an inspired unit with carried c on floor f extracts
\* min(ceil(f / INSPIRED_EXTRACT_RATIO), MAX_ENERGY - c), gains
\* min(2 * extracted, MAX_ENERGY - c), and the floor goes down by extracted
\* only. The unit is inspired for the code (isInspired returns True) and has
\* a unit of another owner in its neighbourhood.
C13_InspiredExtraction ==
  [][ ( /\ ExtractionStep /\ pc' = "extract"
        /\ hasUnit(map, ey, ex)
        /\ owner(map, ey, ex) \in 1 .. numPlayers
        /\ isInspired(map, ex, ey).ret = "True"
        /\ EnemyNear(map, ey, ex) )
      => LET f == floorResource(map, ey, ex)
             c == carriedResource(map, ey, ex)
             extracted == Min(CeilDiv(f, INSPIRED_EXTRACT_RATIO), MAX_ENERGY - c)
         IN  /\ carriedResource(map', ey, ex) = c + Min(2 * extracted, MAX_ENERGY - c)
             /\ floorResource(map', ey, ex) = f - extracted
    ]_vars

\* C14: in every reachable state every cell's carriedResource is between 0
\* and MAX_ENERGY and every cell's floorResource is at least 0, and a step of
\* the extraction loop never raises the floor of its cell.
C14_Capacity ==
  /\ [](\A y \in Rows : \A x \in Cols :
          /\ carriedResource(map, y, x) >= 0
          /\ carriedResource(map, y, x) <= MAX_ENERGY
          /\ floorResource(map, y, x) >= 0)
  /\ [][ExtractionStep =>
          floorResource(map', ey, ex) <= floorResource(map, ey, ex)]_vars

\* C15: isInspired on a cell whose layer 5 is not set returns True only if a
\* unit of another owner lies in the rectangle around the cell; so a unit is
\* not treated as inspired while every unit on the grid has its owner.
C15_InspirationNeedsEnemy ==
  [][ ( /\ ExtractionStep
        /\ hasUnit(map, ey, ex)
        /\ owner(map, ey, ex) \in 1 .. numPlayers
        /\ map[ey][ex][5] = 0
        /\ isInspired(map, ex, ey).ret = "True" )
      => EnemyNear(map, ey, ex)
    ]_vars

\* The player a cell's unit belongs to before the step, as an index.
unitPlayer == owner(map, cy, cx) - 1

\* C16: the reward step returns for player p is BANK_REWARD * bank[p] minus
\* one PENALTY for each failed action of a unit of p and each failed action
\* of a structure of p in the tick; nothing else changes a reward. Step by
\* step: the call starts from zero, a failed action of a player's unit or
\* structure takes one PENALTY from that player only, a successful or Idle
\* action takes nothing, extraction takes nothing, and the return adds
\* BANK_REWARD * bank[p] for every p.
C16_RewardAttribution ==
  [][ /\ (pc = "idle" /\ pc' = "ships") => playerReward' = [p \in Players |-> 0]
      /\ (UnitStep /\ UnitOfPlayer) =>
            playerReward' =
              IF act' \in {<<2>>, <<3>>, <<4>>, <<5>>, <<6>>} /\ success' = <<FALSE>>
                THEN [playerReward EXCEPT ![unitPlayer] = @ - PENALTY]
                ELSE playerReward
      /\ (StructureStep /\ structureOwner(map, fy, fx) \in 1 .. numPlayers
            /\ pc' = "factories") =>
            playerReward' =
              IF act' = <<1>> /\ success' = <<FALSE>>
                THEN [playerReward EXCEPT ![structureOwner(map, fy, fx) - 1] =
                        @ - PENALTY]
                ELSE playerReward
      /\ (pc = "ships" /\ pc' = "factories") => playerReward' = playerReward
      /\ (pc = "factories" /\ pc' = "extract") => playerReward' = playerReward
      /\ ExtractionStep => playerReward' = playerReward
      /\ (pc = "extract" /\ pc' = "idle") =>
            playerReward' = [p \in Players |->
                               playerReward[p] + BANK_REWARD * playerHalite[p]]
    ]_vars

\* Every order this call of step has read so far is Idle.
AllIdle(act_) == \A k \in DOMAIN act_ : act_[k] = 0

\* C17: a step whose grids are all Idle leaves layers 2, 3 and 4 and every
\* bank unchanged, changes floor and carried resource only on cells with a
\* unit, and takes no penalty from any player.
C17_NoOpTick ==
  [][ (pc # "idle" /\ AllIdle(action'))
      => /\ \A y \in Rows : \A x \in Cols :
              /\ structure(map', y, x) = structure(map, y, x)
              /\ hasUnit(map', y, x) = hasUnit(map, y, x)
              /\ owner(map', y, x) = owner(map, y, x)
              /\ ~hasUnit(map, y, x) =>
                    /\ floorResource(map', y, x) = floorResource(map, y, x)
                    /\ carriedResource(map', y, x) = carriedResource(map, y, x)
         /\ playerHalite' = playerHalite
         /\ pc' # "idle" => playerReward' = playerReward
    ]_vars

\* An all-Idle call of step is at its end: it looked up both factories and a
\* unit of a player, and the unit has extracted.
C17_Witness ==
  /\ pc = "extract"
  /\ i > Len(nearShips)
  /\ Cardinality(DOMAIN action) >= 3
  /\ AllIdle(action)
  /\ ship # Unset
  /\ hasUnit(map, lastY, lastX)
  /\ owner(map, lastY, lastX) \in 1 .. numPlayers
  /\ carriedResource(map, lastY, lastX) > 0
  /\ floorResource(map, lastY, lastX) \notin {0, MAX_CELL_PRODUCTION}

\* C20: a unit that stays Idle on floor f > 0 with carried + f <= MAX_ENERGY
\* and no unit of another owner around it (so never inspired) takes the floor
\* down in every tick until it is 0, and ends with exactly f more carried:
\* in each such tick the floor goes strictly down and what leaves the floor
\* is what the unit gains, so carried + floor of the cell stays what it was.
C20_Depletion ==
  [][ ( /\ ExtractionStep /\ pc' = "extract"
        /\ IdleUnit
        /\ ~EnemyNear(map, ey, ex)
        /\ floorResource(map, ey, ex) > 0
        /\ carriedResource(map, ey, ex) + floorResource(map, ey, ex) <= MAX_ENERGY )
      => /\ floorResource(map', ey, ex) < floorResource(map, ey, ex)
         /\ floorResource(map', ey, ex) >= 0
         /\ carriedResource(map', ey, ex) + floorResource(map', ey, ex)
              = carriedResource(map, ey, ex) + floorResource(map, ey, ex)
    ]_vars

IsPowerOfTwo(n) == \E k \in 0 .. 5 : n = 2 ^ k

mapHeight == Cardinality(DOMAIN map)
mapWidth == Cardinality(DOMAIN map[0])
mapCells == (0 .. (mapHeight - 1)) \X (0 .. (mapWidth - 1))
factoryCells == {c \in mapCells : map[c[1]][c[2]][2] = 1}

\* The tiles of the requested tiling are at least 2 by 2 cells, as they are
\* for every size of MapSize and up to sixteen players.
TilesFit ==
  gen.mapSize \div tiling(1, 1, 1, gen.numPlayers)[2] >= 2

\* C19: for a power-of-two player count the constructor produces a world of
\* size x size cells whose floor is mirrored between the quadrants, with
\* exactly numPlayers factories on floor 0 owned by the distinct players
\* 1..numPlayers, owner 0 on every other cell, no unit and nothing carried.
C19_GenerationFairness ==
  (pc # "new" /\ gen # Unset /\ IsPowerOfTwo(gen.numPlayers) /\ TilesFit)
    => /\ pc = "idle"
       /\ mapHeight = gen.mapSize
       /\ mapWidth = gen.mapSize
       /\ Cardinality(factoryCells) = gen.numPlayers
       /\ {map[c[1]][c[2]][4] : c \in factoryCells} = 1 .. gen.numPlayers
       /\ \A c \in mapCells :
            /\ map[c[1]][c[2]][3] = 0
            /\ map[c[1]][c[2]][1] = 0
            /\ c \in factoryCells => map[c[1]][c[2]][0] = 0
            /\ c \notin factoryCells => map[c[1]][c[2]][4] = 0
            /\ gen.numPlayers >= 2 =>
                 map[c[1]][c[2]][0] = map[c[1]][(mapWidth - 1) - c[2]][0]
            /\ gen.numPlayers >= 4 =>
                 map[c[1]][c[2]][0] = map[(mapHeight - 1) - c[1]][c[2]][0]

\* ------------------------------------------------------------------- C21
\* C21: structures are permanent. In every step of every call, a cell that
\* holds a Factory holds a Factory of the same owner afterwards, and a cell
\* that holds a Dropoff holds a Dropoff afterwards; so a ConvertToDropoff of
\* a unit standing on its own Factory leaves the Factory a Factory.
C21_StructuresPermanent ==
  [][\A y \in Rows, x \in Cols :
       /\ structure(map, y, x) = 1 =>
            /\ structure(map', y, x) = 1
            /\ owner(map', y, x) = owner(map, y, x)
       /\ structure(map, y, x) = -1 => structure(map', y, x) = -1]_vars

\* ------------------------------------------------------------------- C22
\* The cell the loop over ships is at lost its unit earlier in this loop: the
\* list was taken when a unit stood on every listed cell.
EmptiedThisPhase == ~hasUnit(map, cy, cx)

\* The unit on the cell the loop is at came there by the move of the
\* iteration before, so it had its action in this call already.
ArrivedThisPhase ==
  /\ JustMoved
  /\ lastDestY = cy
  /\ lastDestX = cx
  /\ hasUnit(map, cy, cx)

\* C22: one action per unit per call. An iteration of the loop over ships on
\* a cell whose unit was destroyed earlier in the loop, or whose unit came
\* there earlier in the loop (and so has acted), executes nothing: the grid
\* and the banks stay as they are.
C22_OneActionPerUnit ==
  [][(UnitStep /\ (EmptiedThisPhase \/ ArrivedThisPhase))
       => (map' = map /\ playerHalite' = playerHalite)]_vars
====
